---- MODULE Spec2Model ----
(***************************************************************************)
(* Model of compile_shader.py: the module-level script that resolves the   *)
(* shader mapping for the platform, compiles every shader with the         *)
(* external compiler, creates the output directories and stages shaders,   *)
(* .env, models, resource and textures into the output trees.              *)
(*                                                                         *)
(* A path is a sequence of names relative to the project directory         *)
(* (<<>> is the project directory itself).  The filesystem is the set of   *)
(* existing directories plus a function from file paths to contents.       *)
(***************************************************************************)
EXTENDS Integers, Sequences, FiniteSets, TLC

VARIABLES plt, file_names, cwd, dirs, files, pc, err, run,
          compilerFails, failedCompiles, created, startDirs, startFiles,
          fixed, failedAt

vars == <<plt, file_names, cwd, dirs, files, pc, err, run,
          compilerFails, failedCompiles, created, startDirs, startFiles,
          fixed, failedAt>>

\* ------------------------------------------------------------------ bounds
\* number of successive runs of the script that are explored
MaxRuns == 2
\* how many of the inputs .env, models/, resource/, textures/ may be missing
MaxMissing == 1

\* ------------------------------------------------------------------- paths
Parent(p) == IF p = <<>> THEN <<>> ELSE SubSeq(p, 1, Len(p) - 1)

IsPrefix(p, q) == Len(p) <= Len(q) /\ SubSeq(q, 1, Len(p)) = p

Ancestors(p) == {SubSeq(p, 1, k) : k \in 0..Len(p)}

\* a relative path of the script resolved against the working directory
RECURSIVE Resolve(_, _)
Resolve(wd, rel) ==
    IF rel # <<>> /\ rel[1] = ".."
    THEN Resolve(Parent(wd), Tail(rel))
    ELSE wd \o rel

\* the path q, which lies under from, moved under to
Rebase(q, from, to) == to \o SubSeq(q, Len(from) + 1, Len(q))

Put(f, p, c) == IF p \in DOMAIN f THEN [f EXCEPT ![p] = c] ELSE (p :> c) @@ f

Restrict(f, S) == [q \in S |-> f[q]]

\* ----------------------------------------------------------- the mapping
BaseFileNames ==
    << << <<"basicShader.vert">>,           "vert.spv" >>,
       << <<"basicShader_animated.vert">>,  "basicShader_animated.spv" >>,
       << <<"basicShader_noTexture.frag">>, "basicShader_noTexture.spv" >>,
       << <<"terrain.vert">>,               "terrain_vert.spv" >>,
       << <<"instance.vert">>,              "instance_vert.spv" >>,
       << <<"ui.vert">>,                    "ui_vert.spv" >>,
       << <<"ui.frag">>,                    "ui_frag.spv" >> >>

WindowsFileNames ==
    << << <<"instance.frag">>,    "instance_frag.spv" >>,
       << <<"water.frag">>,       "water_frag.spv" >>,
       << <<"terrain.frag">>,     "terrain_frag.spv" >>,
       << <<"basicShader.frag">>, "frag.spv" >> >>

DarwinFileNames ==
    << << <<"macos", "instance.frag">>,    "instance_frag.spv" >>,
       << <<"macos", "water.frag">>,       "water_frag.spv" >>,
       << <<"macos", "terrain.frag">>,     "terrain_frag.spv" >>,
       << <<"macos", "basicShader.frag">>, "frag.spv" >> >>

\* faulty variant: the Darwin branch adds the Windows entries
ResolveFileNames_DarwinAsWindows(fn, p) ==
    IF p = "Windows" THEN fn \o WindowsFileNames
    ELSE IF p = "Darwin" THEN fn \o WindowsFileNames
    ELSE fn

\* the platform branch that extends the dict (insertion order is kept)
ResolveFileNames(fn, p) ==
    IF p = "Windows" THEN fn \o WindowsFileNames
    ELSE IF p = "Darwin" THEN fn \o DarwinFileNames
    ELSE fn

Sources(fn) == {fn[i][1] : i \in 1..Len(fn)}
Outputs(fn) == {fn[i][2] : i \in 1..Len(fn)}

\* ---------------------------------------------------- filesystem primitives
\* The state a statement works on: working directory, filesystem, the error
\* that ended the run (if any), the directories created so far and the
\* mapping sources whose compilation failed.
NoErr == [op |-> "none", path |-> <<>>]

Raise(st, op, path) == [st EXCEPT !.err = [op |-> op, path |-> path]]

Exists(st, p) == p \in st.dirs \/ p \in DOMAIN st.files

Under(S, p) == {q \in S : IsPrefix(p, q)}

\* os.chdir(rel)
chdir(st, rel) ==
    LET p == Resolve(st.cwd, rel)
    IN  IF p \in st.dirs THEN [st EXCEPT !.cwd = p]
        ELSE Raise(st, "chdir", p)

\* os.system('glslangValidator -V x -o y'): the exit status is dropped, so a
\* failed compilation changes nothing and raises nothing
system(st, x, y, cf) ==
    LET src == Resolve(st.cwd, x)
        out == Resolve(st.cwd, <<y>>)
    IN  IF src \in DOMAIN st.files /\ x \notin cf
        THEN [st EXCEPT !.files = Put(st.files, out, <<"spv">> \o x)]
        ELSE [st EXCEPT !.failed = st.failed \cup {x}]

\* os.makedirs(p): creates p and every missing parent
makedirs(st, p) ==
    IF Exists(st, p) \/ Ancestors(p) \cap DOMAIN st.files # {}
    THEN Raise(st, "makedirs", p)
    ELSE [st EXCEPT !.dirs = st.dirs \cup Ancestors(p),
                    !.created = st.created \cup (Ancestors(p) \ st.dirs)]

\* if not os.path.exists(rel): os.makedirs(rel)
ensure(st, rel) ==
    LET p == Resolve(st.cwd, rel)
    IN  IF Exists(st, p) THEN st ELSE makedirs(st, p)

\* faulty variant: the file is moved instead of copied
copyfile_Move(st, srcRel, dstRel) ==
    LET src == Resolve(st.cwd, srcRel)
        dst == Resolve(st.cwd, dstRel)
    IN  IF src \notin DOMAIN st.files THEN Raise(st, "copyfile", src)
        ELSE IF Parent(dst) \notin st.dirs \/ dst \in st.dirs
             THEN Raise(st, "copyfile", dst)
        ELSE [st EXCEPT !.files = Restrict(Put(st.files, dst, st.files[src]),
                                      ((DOMAIN st.files) \cup {dst}) \ {src})]

\* shutil.copyfile(src, dst): opens src for reading, then dst for writing
copyfile(st, srcRel, dstRel) ==
    LET src == Resolve(st.cwd, srcRel)
        dst == Resolve(st.cwd, dstRel)
    IN  IF src \notin DOMAIN st.files THEN Raise(st, "copyfile", src)
        ELSE IF Parent(dst) \notin st.dirs \/ dst \in st.dirs
             THEN Raise(st, "copyfile", dst)
        ELSE [st EXCEPT !.files = Put(st.files, dst, st.files[src])]

\* shutil.rmtree(rel): the directory must exist; removes it with its content
rmtree(st, rel) ==
    LET p == Resolve(st.cwd, rel)
    IN  IF p \notin st.dirs THEN Raise(st, "rmtree", p)
        ELSE [st EXCEPT !.dirs = st.dirs \ Under(st.dirs, p),
                        !.files = Restrict(st.files,
                                      DOMAIN st.files \ Under(DOMAIN st.files, p))]

\* faulty variant: a missing source directory yields an empty destination
copytree_Lenient(st, srcRel, dstRel) ==
    LET src == Resolve(st.cwd, srcRel)
        dst == Resolve(st.cwd, dstRel)
        newDirs == Ancestors(dst) \cup
                      {Rebase(q, src, dst) : q \in Under(st.dirs, src)}
        srcFiles == Under(DOMAIN st.files, src)
        newFiles == {Rebase(q, src, dst) : q \in srcFiles}
    IN  IF Exists(st, dst) THEN Raise(st, "copytree", dst)
        ELSE [st EXCEPT
                !.dirs = st.dirs \cup newDirs,
                !.created = st.created \cup (newDirs \ st.dirs),
                !.files = [q \in (DOMAIN st.files) \cup newFiles |->
                             IF q \in newFiles
                             THEN st.files[Rebase(q, dst, src)]
                             ELSE st.files[q]]]

\* shutil.copytree(src, dst): lists src, creates dst (which must not exist)
\* with its parents, then copies the tree
copytree(st, srcRel, dstRel) ==
    LET src == Resolve(st.cwd, srcRel)
        dst == Resolve(st.cwd, dstRel)
        newDirs == Ancestors(dst) \cup
                      {Rebase(q, src, dst) : q \in Under(st.dirs, src)}
        srcFiles == Under(DOMAIN st.files, src)
        newFiles == {Rebase(q, src, dst) : q \in srcFiles}
    IN  IF src \notin st.dirs THEN Raise(st, "copytree", src)
        ELSE IF Exists(st, dst) THEN Raise(st, "copytree", dst)
        ELSE [st EXCEPT
                !.dirs = st.dirs \cup newDirs,
                !.created = st.created \cup (newDirs \ st.dirs),
                !.files = [q \in (DOMAIN st.files) \cup newFiles |->
                             IF q \in newFiles
                             THEN st.files[Rebase(q, dst, src)]
                             ELSE st.files[q]]]

\* ------------------------------------------------------------- statements
S(op, a, b) == [op |-> op, a |-> a, b |-> b]

\* one statement of the script applied to the state
Step(st, s, cf) ==
    CASE s.op = "chdir"    -> chdir(st, s.a)
      [] s.op = "system"   -> system(st, s.a, s.b, cf)
      [] s.op = "ensure"   -> ensure(st, s.a)
      [] s.op = "copyfile" -> copyfile(st, s.a, s.b)
      [] s.op = "rmtree"   -> rmtree(st, s.a)
      [] s.op = "copytree" -> copytree(st, s.a, s.b)

\* the statements in order; an exception ends the run at the raising statement
RECURSIVE Exec(_, _, _)
Exec(stmts, st, cf) ==
    IF stmts = <<>> \/ st.err # NoErr THEN st
    ELSE Exec(Tail(stmts), Step(st, Head(stmts), cf), cf)

RECURSIVE Flatten(_)
Flatten(ss) == IF ss = <<>> THEN <<>> ELSE Head(ss) \o Flatten(Tail(ss))

\* ------------------------------------------------------ the script's blocks
Debug == <<"target", "debug">>
Release == <<"target", "release">>
DarwinRelease == <<"target", "x86_64-apple-darwin", "release">>

SubDirs == <<"shaders", "models", "resource", "textures">>

\* the trees the script stages into on platform p
Trees(p) == IF p = "Darwin" THEN {Debug, Release, DarwinRelease}
            ELSE {Debug, Release}

\* the guarded makedirs of one tree's four subdirectories
EnsureSubDirs(tree) == [i \in 1..Len(SubDirs) |-> S("ensure", tree \o <<SubDirs[i]>>, <<>>)]

\* os.chdir('./shaders') and the compile loop
CompileBlock(fn) ==
    <<S("chdir", <<"shaders">>, <<>>)>> \o
    [i \in 1..Len(fn) |-> S("system", fn[i][1], fn[i][2])]

\* the guarded makedirs, executed in the working directory the compile
\* block left
MakeDirsBlock(p) ==
    <<S("ensure", <<"target">>, <<>>), S("ensure", Debug, <<>>)>> \o
    EnsureSubDirs(Debug) \o
    <<S("ensure", Release, <<>>)>> \o EnsureSubDirs(Release) \o
    (IF p = "Darwin"
     THEN <<S("ensure", DarwinRelease, <<>>)>> \o EnsureSubDirs(DarwinRelease)
     ELSE <<>>)

CopyShader(tree, y) ==
    S("copyfile", <<"shaders", y>>, tree \o <<"shaders", y>>)

CopyEnv(tree) == S("copyfile", <<".env">>, tree \o <<".env">>)

\* shutil.rmtree(dst) followed by shutil.copytree(src, dst)
Mirror(tree, cat) ==
    <<S("rmtree", tree \o <<cat>>, <<>>),
      S("copytree", <<cat>>, tree \o <<cat>>)>>

\* faulty variant: target/debug/shaders is cleared before the copy loop
StageDebugBlock_Wipe(fn) ==
    <<S("chdir", <<"..">>, <<>>),
      S("rmtree", Debug \o <<"shaders">>, <<>>),
      S("ensure", Debug \o <<"shaders">>, <<>>)>> \o
    [i \in 1..Len(fn) |-> CopyShader(Debug, fn[i][2])] \o
    <<CopyEnv(Debug)>> \o Mirror(Debug, "models")

\* os.chdir('../'), the copy loop, .env and the models mirror of target/debug
StageDebugBlock(fn) ==
    <<S("chdir", <<"..">>, <<>>)>> \o
    [i \in 1..Len(fn) |-> CopyShader(Debug, fn[i][2])] \o
    <<CopyEnv(Debug)>> \o Mirror(Debug, "models")

StageReleaseBlock(fn) ==
    [i \in 1..Len(fn) |-> CopyShader(Release, fn[i][2])] \o
    <<CopyEnv(Release)>> \o Mirror(Release, "models")

\* faulty variant: the platform test is missing
StageDarwinBlock_Unguarded(fn, p) ==
    Flatten([i \in 1..Len(fn) |->
        <<CopyShader(DarwinRelease, fn[i][2]), CopyEnv(DarwinRelease)>>
        \o Mirror(DarwinRelease, "models")])

\* on Darwin the .env copy and the models mirror are inside the loop body
StageDarwinBlock(fn, p) ==
    IF p = "Darwin"
    THEN Flatten([i \in 1..Len(fn) |->
            <<CopyShader(DarwinRelease, fn[i][2]), CopyEnv(DarwinRelease)>>
            \o Mirror(DarwinRelease, "models")])
    ELSE <<>>

\* faulty variant: the target/release mirror is left out
MirrorBlock_SkipRelease(cat, p) ==
    Mirror(Debug, cat) \o
    (IF p = "Darwin" THEN Mirror(DarwinRelease, cat) ELSE <<>>)

\* the mirror of one asset directory into every tree of the platform
MirrorBlock(cat, p) ==
    Mirror(Debug, cat) \o Mirror(Release, cat) \o
    (IF p = "Darwin" THEN Mirror(DarwinRelease, cat) ELSE <<>>)

MirrorResourceBlock(p) == MirrorBlock("resource", p)

MirrorTexturesBlock(p) == MirrorBlock("textures", p)

\* ------------------------------------------------ the project before a run
Platforms == {"Windows", "Darwin", "Linux"}

AllTrees == {Debug, Release, DarwinRelease}

\* the inputs the staging steps read besides the compiled shaders
Inputs == {".env", "models", "resource", "textures"}

AllFileNames == BaseFileNames \o WindowsFileNames \o DarwinFileNames

\* a set of <<path, content>> pairs as a function from paths to contents
FilesOf(P) == [q \in {x[1] : x \in P} |-> (CHOOSE x \in P : x[1] = q)[2]]

Old == <<"old">>

\* shaders/ with the GLSL sources (all but those in gone); with stale, the
\* artifacts of an earlier compilation are there too
ShaderDirs == {<<"shaders">>, <<"shaders", "macos">>}

ShaderFiles(gone, stale) ==
    {<< <<"shaders">> \o x, <<"glsl">> >> : x \in Sources(AllFileNames) \ gone}
    \cup (IF stale
          THEN {<< <<"shaders", y>>, Old >> : y \in Outputs(AllFileNames)}
          ELSE {})

InputDirs(missing) ==
    (IF "models" \in missing THEN {} ELSE {<<"models">>, <<"models", "sub">>})
    \cup {<<c>> : c \in {"resource", "textures"} \ missing}

InputFiles(missing) ==
    (IF ".env" \in missing THEN {} ELSE {<< <<".env">>, <<"env">> >>})
    \cup (IF "models" \in missing THEN {}
          ELSE {<< <<"models", "a.obj">>, <<"m", "a">> >>,
                << <<"models", "sub", "b.obj">>, <<"m", "b">> >>})
    \cup (IF "resource" \in missing THEN {}
          ELSE {<< <<"resource", "r.png">>, <<"r">> >>})
    \cup (IF "textures" \in missing THEN {}
          ELSE {<< <<"textures", "t.png">>, <<"t">> >>})

\* an output tree as an earlier build left it: "absent", "full" (the four
\* subdirectories with content of the earlier build, some of it no longer
\* in the sources or the mapping) or "nomodels" (full without models/)
TreeShapes == {"absent", "nomodels", "full"}

TreeDirs(tree, shape) ==
    IF shape = "absent" THEN {}
    ELSE Ancestors(tree)
         \cup {tree \o <<c>> : c \in {"shaders", "resource", "textures"}}
         \cup (IF shape = "full" THEN {tree \o <<"models">>} ELSE {})

TreeFiles(tree, shape) ==
    IF shape = "absent" THEN {}
    ELSE {<< tree \o <<".env">>, Old >>,
          << tree \o <<"shaders", "vert.spv">>, Old >>,
          << tree \o <<"shaders", "removed.spv">>, Old >>,
          << tree \o <<"resource", "r.png">>, Old >>,
          << tree \o <<"resource", "old.png">>, Old >>,
          << tree \o <<"textures", "old.png">>, Old >>}
         \cup (IF shape = "full"
               THEN {<< tree \o <<"models", "a.obj">>, Old >>,
                     << tree \o <<"models", "old", "c.obj">>, Old >>}
               ELSE {})

InitDirs(hasShaders, missing, shape) ==
    {<<>>} \cup (IF hasShaders THEN ShaderDirs ELSE {})
    \cup InputDirs(missing)
    \cup UNION {TreeDirs(t, shape[t]) : t \in AllTrees}
    \cup {t \o <<"models", "old">> : t \in {u \in AllTrees : shape[u] = "full"}}

InitFiles(hasShaders, gone, stale, missing, shape) ==
    FilesOf((IF hasShaders THEN ShaderFiles(gone, stale) ELSE {})
            \cup InputFiles(missing)
            \cup UNION {TreeFiles(t, shape[t]) : t \in AllTrees})

Init ==
    /\ plt \in Platforms
    /\ file_names = BaseFileNames
    /\ cwd = <<>>
    /\ compilerFails \in {{}, {<<"basicShader.vert">>}}
    /\ \E hasShaders \in BOOLEAN, stale \in BOOLEAN,
          gone \in {{}, {<<"ui.frag">>}},
          missing \in {M \in SUBSET Inputs : Cardinality(M) <= MaxMissing},
          shape \in [AllTrees -> TreeShapes] :
            /\ (~hasShaders => ~stale /\ gone = {})
            /\ dirs = InitDirs(hasShaders, missing, shape)
            /\ files = InitFiles(hasShaders, gone, stale, missing, shape)
    /\ pc = "resolve"
    /\ err = NoErr
    /\ run = 1
    /\ failedCompiles = {}
    /\ created = {}
    /\ startDirs = dirs
    /\ startFiles = files
    /\ fixed = FALSE
    /\ failedAt = "none"

\* ------------------------------------------------------------- the actions
Here == [cwd |-> cwd, dirs |-> dirs, files |-> files, err |-> err,
         created |-> created, failed |-> failedCompiles]

\* run one block of the script from the current state
Block(at, stmts, next) ==
    /\ pc = at
    /\ LET r == Exec(stmts, Here, compilerFails)
       IN  /\ cwd' = r.cwd
           /\ dirs' = r.dirs
           /\ files' = r.files
           /\ err' = r.err
           /\ created' = r.created
           /\ failedCompiles' = r.failed
           /\ pc' = IF r.err = NoErr THEN next ELSE "failed"
           /\ failedAt' = IF r.err = NoErr THEN "none" ELSE at
    /\ UNCHANGED <<plt, file_names, run, compilerFails, startDirs,
                   startFiles, fixed>>

ResolveMapping ==
    /\ pc = "resolve"
    /\ file_names' = ResolveFileNames(file_names, plt)
    /\ pc' = "compile"
    /\ UNCHANGED <<plt, cwd, dirs, files, err, run, compilerFails,
                   failedCompiles, created, startDirs, startFiles, fixed,
                   failedAt>>

Compile == Block("compile", CompileBlock(file_names), "makedirs")

MakeDirs == Block("makedirs", MakeDirsBlock(plt), "debug")

StageDebug == Block("debug", StageDebugBlock(file_names), "release")

StageRelease == Block("release", StageReleaseBlock(file_names), "darwin")

StageDarwin == Block("darwin", StageDarwinBlock(file_names, plt), "resource")

MirrorResource == Block("resource", MirrorResourceBlock(plt), "textures")

MirrorTextures == Block("textures", MirrorTexturesBlock(plt), "done")

Ended == pc \in {"done", "failed"}

\* a new process: the module-level state starts over, the filesystem stays
Restart(d, f) ==
    /\ run' = run + 1
    /\ pc' = "resolve"
    /\ file_names' = BaseFileNames
    /\ cwd' = <<>>
    /\ err' = NoErr
    /\ failedAt' = "none"
    /\ failedCompiles' = {}
    /\ created' = {}
    /\ dirs' = d
    /\ files' = f
    /\ startDirs' = d
    /\ startFiles' = f

\* the script is run again on the filesystem the previous run left
Rerun ==
    /\ Ended
    /\ run < MaxRuns
    /\ Restart(dirs, files)
    /\ fixed' = FALSE
    /\ UNCHANGED <<plt, compilerFails>>

\* the error names an input of the script: the shader directory, a compiled
\* artifact, .env or a static asset directory
InputError ==
    /\ pc = "failed"
    /\ \/ err.path \in {<<"shaders">>, <<".env">>}
       \/ err.path \in {<<c>> : c \in Inputs}
       \/ /\ Len(err.path) = 2
          /\ err.path[1] = "shaders"

\* the operator restores every input (sources, .env, asset directories, a
\* working compiler) after such an error and runs the script again
OperatorFix ==
    /\ InputError
    /\ run < MaxRuns
    /\ Restart(dirs \cup ShaderDirs \cup InputDirs({}),
               FilesOf({<<q, files[q]>> : q \in DOMAIN files}
                       \cup {x \in ShaderFiles({}, FALSE) \cup InputFiles({}) :
                               x[1] \notin DOMAIN files}))
    /\ compilerFails' = {}
    /\ fixed' = TRUE
    /\ UNCHANGED plt

Next ==
    \/ ResolveMapping
    \/ Compile
    \/ MakeDirs
    \/ StageDebug
    \/ StageRelease
    \/ StageDarwin
    \/ MirrorResource
    \/ MirrorTextures
    \/ Rerun
    \/ OperatorFix

Spec == Init /\ [][Next]_vars

\* ------------------------------------------------------------- properties
Mirrored == {"models", "resource", "textures"}

RelDirs(d, p) == {SubSeq(q, Len(p) + 1, Len(q)) : q \in Under(d, p)}

RelFiles(f, p) ==
    {<<SubSeq(q, Len(p) + 1, Len(q)), f[q]>> : q \in Under(DOMAIN f, p)}

\* the tree rooted at p and the tree rooted at q: same relative paths, same
\* contents
SameTree(p, q) ==
    /\ p \in dirs
    /\ q \in dirs
    /\ RelDirs(dirs, p) = RelDirs(dirs, q)
    /\ RelFiles(files, p) = RelFiles(files, q)

\* at the start of the run every input existed and no output tree did
FreshProject ==
    /\ ShaderDirs \cup InputDirs({}) \subseteq startDirs
    /\ \A x \in ShaderFiles({}, FALSE) \cup InputFiles({}) :
          x[1] \in DOMAIN startFiles
    /\ compilerFails = {}
    /\ \A t \in AllTrees : t \notin startDirs

\* C1 (as claimed): from a project with all sources, a compiler that always
\* succeeds and no output tree under target/, the run completes and every
\* populated tree has its four subdirectories.
C1_FreshRunCompletes ==
    (Ended /\ FreshProject) =>
        /\ pc = "done"
        /\ \A t \in Trees(plt) : \A i \in 1..Len(SubDirs) :
              t \o <<SubDirs[i]>> \in dirs

\* C2: after a run that completes, models, resource and textures of every
\* populated tree hold exactly the relative paths and contents of the source
\* directory; what was there before and is not in the source is gone.
C2_MirrorsAreExact ==
    pc = "done" =>
        \A t \in Trees(plt) : \A c \in Mirrored : SameTree(t \o <<c>>, <<c>>)

C2_Witness ==
    /\ pc = "done"
    /\ plt = "Darwin"
    /\ \A t \in Trees(plt) :
          /\ t \o <<"models", "old", "c.obj">> \in DOMAIN startFiles
          /\ t \o <<"models", "old", "c.obj">> \notin DOMAIN files
          /\ t \o <<"resource", "old.png">> \in DOMAIN startFiles
          /\ t \o <<"resource", "old.png">> \notin DOMAIN files
          /\ startFiles[t \o <<"resource", "r.png">>] = Old
          /\ files[t \o <<"resource", "r.png">>] = <<"r">>

\* C3: a run started on the filesystem the previous run left (sources,
\* platform and compiler unchanged) ends with that same filesystem.
C3_Idempotent ==
    (Ended /\ run >= 2 /\ ~fixed) =>
        /\ dirs = startDirs
        /\ files = startFiles

C3_Witness ==
    /\ pc = "done"
    /\ run >= 2
    /\ ~fixed
    /\ created # {}
    /\ failedCompiles # {}

\* C4 (as claimed): after a run that stopped with an error whose cause the
\* operator fixed, the next run of the whole script completes.
C4_RerunAfterFixCompletes ==
    (Ended /\ fixed) => pc = "done"

\* C5 (as claimed): a run in which the compiler failed for an entry of the
\* mapping does not complete successfully.
C5_CompileFailureStopsRun ==
    pc = "done" => failedCompiles = {}

\* C6 (as claimed): with models/ missing the run ends with an error that
\* refers to models/.
C6_ErrorNamesModels ==
    (Ended /\ <<"models">> \notin dirs) =>
        /\ pc = "failed"
        /\ err.path = <<"models">>

\* C6 (amended): with models/ missing the run never completes; it ends with
\* the first error it meets, raised no later than the models mirror of
\* target/debug, and the error of that mirror's copytree refers to models/.
C6_MissingModelsFails ==
    (Ended /\ <<"models">> \notin dirs) =>
        /\ pc = "failed"
        /\ failedAt \in {"compile", "makedirs", "debug"}
        /\ err.op = "copytree" => err.path = <<"models">>
        /\ (err.op \in {"chdir", "copyfile", "makedirs"}
              \/ err = [op |-> "rmtree", path |-> Debug \o <<"models">>]
              \/ err = [op |-> "copytree", path |-> <<"models">>])

C6_Witness ==
    /\ pc = "failed"
    /\ <<"models">> \notin dirs
    /\ err = [op |-> "copytree", path |-> <<"models">>]
    /\ Debug \o <<"models">> \in startDirs
    /\ Debug \o <<"models">> \notin dirs

\* C7: once resolved, the mapping has the four Windows fragment sources and
\* no macos/ source on Windows, the four macos/ sources and no Windows one on
\* Darwin, exactly the seven base entries elsewhere; its output names are
\* pairwise distinct.
WinFrag == {<<"instance.frag">>, <<"water.frag">>, <<"terrain.frag">>, <<"basicShader.frag">>}

MacFrag == {<<"macos", "instance.frag">>, <<"macos", "water.frag">>, <<"macos", "terrain.frag">>, <<"macos", "basicShader.frag">>}

C7_PlatformMapping ==
    pc # "resolve" =>
        /\ plt = "Windows" =>
              /\ WinFrag \subseteq Sources(file_names)
              /\ MacFrag \cap Sources(file_names) = {}
        /\ plt = "Darwin" =>
              /\ MacFrag \subseteq Sources(file_names)
              /\ WinFrag \cap Sources(file_names) = {}
        /\ plt \notin {"Windows", "Darwin"} =>
              /\ Len(file_names) = 7
              /\ file_names = BaseFileNames
        /\ \A i, j \in 1..Len(file_names) :
              i # j => file_names[i][2] # file_names[j][2]

C7_Witness ==
    /\ pc = "compile"
    /\ plt = "Windows"
    /\ Len(file_names) = 11

\* C8: on Darwin a completed run leaves in target/x86_64-apple-darwin/release
\* the staged content of target/release (the mapping's shader files, .env and
\* the three mirrors); on any other platform nothing under
\* target/x86_64-apple-darwin is created, modified or removed.
DarwinRoot == <<"target", "x86_64-apple-darwin">>

C8_DarwinTree ==
    /\ (pc = "done" /\ plt = "Darwin") =>
          /\ \A y \in Outputs(file_names) :
                /\ DarwinRelease \o <<"shaders", y>> \in DOMAIN files
                /\ Release \o <<"shaders", y>> \in DOMAIN files
                /\ files[DarwinRelease \o <<"shaders", y>>]
                      = files[Release \o <<"shaders", y>>]
          /\ DarwinRelease \o <<".env">> \in DOMAIN files
          /\ Release \o <<".env">> \in DOMAIN files
          /\ files[DarwinRelease \o <<".env">>] = files[Release \o <<".env">>]
          /\ \A c \in Mirrored :
                SameTree(DarwinRelease \o <<c>>, Release \o <<c>>)
    /\ plt # "Darwin" =>
          /\ Under(dirs, DarwinRoot) = Under(startDirs, DarwinRoot)
          /\ RelFiles(files, DarwinRoot) = RelFiles(startFiles, DarwinRoot)

C8_Witness ==
    /\ pc = "done"
    /\ plt = "Darwin"
    /\ startFiles[DarwinRelease \o <<".env">>] = Old
    /\ files[DarwinRelease \o <<".env">>] = <<"env">>
    /\ files[Release \o <<".env">>] = <<"env">>

\* C9: after a run that completes, the shaders directory of every populated
\* tree has every output name of the mapping with the content of the artifact
\* in shaders/, and every file it had before under a name that is not in the
\* mapping is still there, unchanged.
C9_ShaderOverlay ==
    pc = "done" =>
        \A t \in Trees(plt) :
            /\ \A y \in Outputs(file_names) :
                  /\ t \o <<"shaders", y>> \in DOMAIN files
                  /\ <<"shaders", y>> \in DOMAIN files
                  /\ files[t \o <<"shaders", y>>] = files[<<"shaders", y>>]
            /\ \A q \in Under(DOMAIN startFiles, t \o <<"shaders">>) :
                  q[Len(q)] \notin Outputs(file_names) =>
                      /\ q \in DOMAIN files
                      /\ files[q] = startFiles[q]

C9_Witness ==
    /\ pc = "done"
    /\ \A t \in Trees(plt) :
          /\ startFiles[t \o <<"shaders", "removed.spv">>] = Old
          /\ files[t \o <<"shaders", "removed.spv">>] = Old
          /\ startFiles[t \o <<"shaders", "vert.spv">>] = Old
          /\ files[t \o <<"shaders", "vert.spv">>] = <<"spv", "basicShader.vert">>

\* C10 (as claimed): every directory the run creates lies under the
\* project's target/, and a run ends in the working directory it started in.
C10_CreatesOnlyUnderTarget ==
    /\ \A q \in created : IsPrefix(<<"target">>, q)
    /\ Ended => cwd = <<>>

====
